---- MODULE Spec2Model ----
(***************************************************************************)
(* A model of the `tail` tool of the cli-tools collection                  *)
(* (src/tail/src/lib.rs, src/tail/src/main.rs): the offset parser          *)
(* parse_count, the window resolver get_start_index, the two extraction    *)
(* strategies print_lines and print_bytes, and the per-file loop of run.   *)
(*                                                                         *)
(* Integers.  The program computes in i64 and u64.  TLC's integers are 32  *)
(* bits wide, so the model keeps the two's-complement layout and scales    *)
(* the width down: an i64 is a signed integer of IntBits bits and a u64 an *)
(* unsigned integer of IntBits bits.  Every boundary of the program        *)
(* (i64::MIN, i64::MAX, the wrap of a subtraction, the `as u64` cast) is   *)
(* kept, at I64_MIN, I64_MAX and modulo 2^IntBits.                         *)
(*                                                                         *)
(* Overflow.  Rust's arithmetic on an overflow panics when the crate is    *)
(* built with overflow checks (the dev profile) and wraps when built       *)
(* without (the release profile).  The variable overflow_checks is the     *)
(* profile of the build; it is chosen in Init and never changes.           *)
(***************************************************************************)
EXTENDS Integers, Sequences, FiniteSets, TLC

\* Width, in bits, of the model's i64 and u64 (the program's is 64).
IntBits == 5

I64_MIN == -(2 ^ (IntBits - 1))
I64_MAX == (2 ^ (IntBits - 1)) - 1
U64_MODULUS == 2 ^ IntBits

\* The value an i64 holds after a wrapping operation whose exact result is x.
WrapI64(x) == ((x - I64_MIN) % U64_MODULUS) + I64_MIN

\* `x as u64` for an i64 x: the same bits read as unsigned.
AsU64(x) == x % U64_MODULUS

InI64(x) == I64_MIN <= x /\ x <= I64_MAX

\* The outcome of an i64 operation whose exact result is x: the value, or a
\* panic on overflow when the build checks overflow, or the wrapped value.
Arith(x, checks) ==
    IF InI64(x) THEN [panic |-> FALSE, val |-> x]
    ELSE IF checks THEN [panic |-> TRUE, val |-> 0]
    ELSE [panic |-> FALSE, val |-> WrapI64(x)]

---------------------------------------------------------------------------
\* enum TakeValue { PlusZero, TakeNum(i64) }
PlusZero == [tag |-> "PlusZero", num |-> 0]
TakeNum(v) == [tag |-> "TakeNum", num |-> v]
TakeValue == {PlusZero} \cup {TakeNum(v) : v \in I64_MIN..I64_MAX}

\* Option<u64>, and the panic that can take its place.
None == [tag |-> "None", val |-> 0]
Some(x) == [tag |-> "Some", val |-> x]
Panicked == [tag |-> "Panic", val |-> 0]

\* i64::abs: the negation overflows for i64::MIN.
i64_abs(v, checks) == IF v < 0 THEN Arith(0 - v, checks) ELSE Arith(v, checks)

\* NegativeArm with the fault of returning the magnitude itself, not total - it.
NegativeArmNoSubtract(a, t, checks) ==
    IF a < t THEN Some(AsU64(a)) ELSE Some(0)

\* The arms of the negative case, on a the result of v.abs():
\* `v if v < t => Some((t - v) as u64), _ => Some(0)`.
NegativeArm(a, t, checks) ==
    IF a < t
    THEN LET d == Arith(t - a, checks)
         IN  IF d.panic THEN Panicked ELSE Some(AsU64(d.val))
    ELSE Some(0)

\* PositiveArm with the fault of keeping the 1-based position.
PositiveArmOffByOne(v, t) ==
    IF v > 0 /\ v <= t THEN Some(AsU64(v)) ELSE None

\* PositiveArm with the fault of leaving out the guard `v <= &t`.
PositiveArmNoRangeCheck(v, t) ==
    IF v > 0 THEN Some(AsU64(v - 1)) ELSE None

\* The arm `(TakeNum(v), t) if v.is_positive() && v <= &t => Some((v - 1) as u64)`
\* and the final `_ => None`, for v >= 0.
PositiveArm(v, t) ==
    IF v > 0 /\ v <= t THEN Some(AsU64(v - 1)) ELSE None

\* The arms for TakeNum(v) once total is known to be non-zero.
TakeNumArms(v, t, checks) ==
    IF v < 0
    THEN LET a == i64_abs(v, checks)
         IN  IF a.panic THEN Panicked ELSE NegativeArm(a.val, t, checks)
    ELSE PositiveArm(v, t)

\* get_start_index with the fault of trying the PlusZero arm before (_, 0).
get_start_index_PlusZeroFirst(tv, t, checks) ==
    IF tv = PlusZero THEN Some(0)
    ELSE IF t = 0 THEN None
    ELSE TakeNumArms(tv.num, t, checks)

\* get_start_index with the fault of treating PlusZero as TakeNum(0).
get_start_index_PlusZeroAsZero(tv, t, checks) ==
    IF t = 0 THEN None
    ELSE TakeNumArms(tv.num, t, checks)

\* fn get_start_index(take_val: &TakeValue, total: i64) -> Option<u64>
\* (first matching arm wins).
get_start_index(tv, t, checks) ==
    IF t = 0 THEN None
    ELSE IF tv = PlusZero THEN Some(0)
    ELSE TakeNumArms(tv.num, t, checks)

---------------------------------------------------------------------------
\* Text.  A &str is a sequence of characters; the characters the model draws
\* from are the two signs, the ASCII digits, a '.', a letter, and one decimal
\* digit that is not ASCII (U+0663, ARABIC-INDIC DIGIT THREE).
AsciiDigits == <<"0", "1", "2", "3", "4", "5", "6", "7", "8", "9">>
AsciiDigitSet == {AsciiDigits[k] : k \in 1..10}
Chars == {"+", "-", ".", "f", "u0663"} \cup AsciiDigitSet

\* Longest text the model draws.
MaxLen == 3

Texts == UNION {[1..n -> Chars] : n \in 0..MaxLen}

\* char::to_digit(10) of an ASCII digit.
DigitValue(c) == (CHOOSE k \in 1..10 : AsciiDigits[k] = c) - 1

\* The regex class \d: any Unicode decimal digit.
RegexDigit(c) == c \in AsciiDigitSet \cup {"u0663"}

\* PLUS_ZERO_REG with the fault of the pattern ^\+0+$.
PLUS_ZERO_REG_AnyZeros(txt) ==
    /\ Len(txt) >= 2
    /\ txt[1] = "+"
    /\ \A k \in 2..Len(txt) : txt[k] = "0"

\* Regex::new(r"^\+0$").is_match(s)
PLUS_ZERO_REG(txt) == txt = <<"+", "0">>

\* Regex::new(r"^(\+|\-)\d+$").is_match(s)
PLUS_NUM_REG(txt) ==
    /\ Len(txt) >= 2
    /\ txt[1] \in {"+", "-"}
    /\ \A k \in 2..Len(txt) : RegexDigit(txt[k])

\* Result<i64, ParseIntError> of str::parse::<i64>.
ParsedInt(v) == [ok |-> TRUE, val |-> v]
ParseIntError == [ok |-> FALSE, val |-> 0]

\* The digit loop of i64::from_str: multiply by ten, then add (or, for a
\* negative number, subtract) the digit, each step checked.
RECURSIVE FromDigits(_, _, _)
FromDigits(digits, acc, positive) ==
    IF digits = <<>> THEN ParsedInt(acc)
    ELSE IF Head(digits) \notin AsciiDigitSet THEN ParseIntError
    ELSE LET m == acc * 10
             r == IF positive THEN m + DigitValue(Head(digits))
                              ELSE m - DigitValue(Head(digits))
         IN  IF ~InI64(m) \/ ~InI64(r) THEN ParseIntError
             ELSE FromDigits(Tail(digits), r, positive)

\* parse_i64 with the fault of reading the empty text and a lone sign as 0.
parse_i64_EmptyIsZero(txt) ==
    IF txt = <<>> THEN ParsedInt(0)
    ELSE IF txt[1] \in {"+", "-"}
    THEN FromDigits(Tail(txt), 0, txt[1] = "+")
    ELSE FromDigits(txt, 0, TRUE)

\* s.parse::<i64>(): an optional sign, then one or more ASCII digits, in range.
parse_i64(txt) ==
    IF txt = <<>> THEN ParseIntError
    ELSE IF txt[1] \in {"+", "-"}
    THEN IF Len(txt) = 1 THEN ParseIntError
         ELSE FromDigits(Tail(txt), 0, txt[1] = "+")
    ELSE FromDigits(txt, 0, TRUE)

HasLeadingSign(txt) == txt # <<>> /\ txt[1] \in {"+", "-"}

\* MyResult<TakeValue>: Ok(value), Err(the input text), or a panic.
OkTake(tv) == [tag |-> "Ok", val |-> tv, err |-> <<>>]
ErrText(txt) == [tag |-> "Err", val |-> PlusZero, err |-> txt]
ParsePanicked == [tag |-> "Panic", val |-> PlusZero, err |-> <<>>]
NotParsed == [tag |-> "NotParsed", val |-> PlusZero, err |-> <<>>]

\* NegatedBranch with the fault of leaving out mul(-1).
NegatedBranchNoNegate(txt, checks) ==
    LET r == parse_i64(txt)
    IN  IF ~r.ok THEN ErrText(txt) ELSE OkTake(TakeNum(r.val))

\* NegatedBranch with the fault of accumulating the digits as a negative
\* number, so that the magnitude of i64::MIN is accepted without a sign.
NegatedBranchWidened(txt, checks) ==
    LET r == parse_i64(<<"-">> \o txt)
    IN  IF HasLeadingSign(txt) \/ ~r.ok THEN NegatedBranchNoNegate(txt, checks)
        ELSE OkTake(TakeNum(r.val))

\* The last branch of parse_count: s.parse::<i64>().map_err(|_| s)?.mul(-1)
NegatedBranch(txt, checks) ==
    LET r == parse_i64(txt)
    IN  IF ~r.ok THEN ErrText(txt)
        ELSE LET n == Arith(r.val * (-1), checks)
             IN  IF n.panic THEN ParsePanicked ELSE OkTake(TakeNum(n.val))

\* The middle branch: s.parse::<i64>().map_err(|_| s)?
SignedBranch(txt) ==
    LET r == parse_i64(txt)
    IN  IF ~r.ok THEN ErrText(txt) ELSE OkTake(TakeNum(r.val))

\* fn parse_count(s: &str) -> MyResult<TakeValue>
parse_count(txt, checks) ==
    IF PLUS_ZERO_REG(txt) THEN OkTake(PlusZero)
    ELSE IF PLUS_NUM_REG(txt) THEN SignedBranch(txt)
    ELSE NegatedBranch(txt, checks)

\* i64::to_string: the decimal text of an integer.
RECURSIVE DecimalDigits(_)
DecimalDigits(n) ==
    IF n < 10 THEN <<AsciiDigits[n + 1]>>
    ELSE Append(DecimalDigits(n \div 10), AsciiDigits[(n % 10) + 1])

to_string(n) == IF n < 0 THEN <<"-">> \o DecimalDigits(0 - n) ELSE DecimalDigits(n)

---------------------------------------------------------------------------
\* Files.  A file's content is a sequence of bytes.  The bytes the model draws
\* from are an ASCII letter, the line terminator, and the two bytes of the
\* UTF-8 encoding of U+00E9 (0xC3 0xA9): a lead byte and a continuation byte,
\* each of which is invalid UTF-8 on its own.
Bytes == {"a", "\n", "xC3", "xA9"}

\* Longest file content the model draws.
MaxBytes == 3

Contents == UNION {[1..n -> Bytes] : n \in 0..MaxBytes}

Drop(buf, n) == SubSeq(buf, n + 1, Len(buf))

\* std::str::from_utf8(buf).is_ok(): every lead byte is followed by its
\* continuation byte and every continuation byte follows a lead byte.
Utf8Valid(buf) ==
    \A k \in 1..Len(buf) :
        /\ buf[k] = "xC3" => (k < Len(buf) /\ buf[k + 1] = "xA9")
        /\ buf[k] = "xA9" => (k > 1 /\ buf[k - 1] = "xC3")

\* String::from_utf8_lossy(buf): each byte that is not part of a valid
\* sequence is replaced by U+FFFD.
from_utf8_lossy(buf) ==
    [k \in 1..Len(buf) |->
        IF buf[k] = "xC3" /\ ~(k < Len(buf) /\ buf[k + 1] = "xA9") THEN "uFFFD"
        ELSE IF buf[k] = "xA9" /\ ~(k > 1 /\ buf[k - 1] = "xC3") THEN "uFFFD"
        ELSE buf[k]]

\* The bytes one read_line call consumes: up to and including the first
\* line terminator, or everything that is left (nothing at end of file).
RECURSIVE LineLen(_)
LineLen(buf) ==
    IF buf = <<>> THEN 0
    ELSE IF Head(buf) = "\n" THEN 1
    ELSE 1 + LineLen(Tail(buf))

\* file.lines().count(): one item per read_line call that consumes anything,
\* whether or not the line decodes.
RECURSIVE CountLines(_)
CountLines(buf) ==
    IF buf = <<>> THEN 0 ELSE 1 + CountLines(Drop(buf, LineLen(buf)))

\* fn count_lines_bytes(filename: &str) -> MyResult<(i64, i64)>
count_lines_bytes(content) ==
    [line_count |-> CountLines(content), byte_count |-> Len(content)]

\* MyResult<()> of an extraction, with what it printed.
Printed(out) == [tag |-> "Ok", out |-> out, msg |-> <<>>]
Failed(msg) == [tag |-> "Err", out |-> <<>>, msg |-> msg]
Aborted == [tag |-> "Panic", out |-> <<>>, msg |-> <<"panicked: arithmetic overflow">>]

InvalidUtf8 == <<"stream did not contain valid UTF-8">>
FromUtf8Error == <<"invalid utf-8 sequence">>
InvalidSeek == <<"Invalid argument (os error 22)">>

\* SkipLines with the fault of skipping raw bytes (read_until) without decoding.
RECURSIVE SkipLinesNoDecode(_, _)
SkipLinesNoDecode(buf, n) ==
    IF n = 0 THEN [ok |-> TRUE, rest |-> buf]
    ELSE SkipLinesNoDecode(Drop(buf, LineLen(buf)), n - 1)

\* The loop `for _ in 0..s { file.read_line(&mut buf)?; }`: what is left of
\* the file after n lines, or the error of the first line that does not decode.
\* A read_line at the end of the file consumes nothing and succeeds, so the
\* loop runs all its s turns also when s is larger than the number of lines.
RECURSIVE SkipLines(_, _)
SkipLines(buf, n) ==
    IF n = 0 THEN [ok |-> TRUE, rest |-> buf]
    ELSE IF ~Utf8Valid(SubSeq(buf, 1, LineLen(buf))) THEN [ok |-> FALSE, rest |-> <<>>]
    ELSE SkipLines(Drop(buf, LineLen(buf)), n - 1)

\* The longest prefix of buf that is valid UTF-8.
RECURSIVE ValidPrefix(_)
ValidPrefix(buf) ==
    IF Utf8Valid(buf) THEN buf ELSE ValidPrefix(SubSeq(buf, 1, Len(buf) - 1))

\* print_lines with the fault of writing what decodes of the trailing content
\* before it reports the part that does not.
print_lines_PartialWrite(content, num_lines, total_lines, checks) ==
    LET st == get_start_index(num_lines, total_lines, checks)
    IN  IF st.tag = "Panic" THEN Aborted
        ELSE IF st.tag = "None" THEN Printed(<<>>)
        ELSE LET sk == SkipLines(content, st.val)
             IN  IF ~sk.ok THEN Failed(InvalidUtf8)
                 ELSE IF ~Utf8Valid(sk.rest)
                      THEN [tag |-> "Err", out |-> ValidPrefix(sk.rest), msg |-> FromUtf8Error]
                 ELSE Printed(sk.rest)

\* fn print_lines(file, num_lines: &TakeValue, total_lines: i64) -> MyResult<()>
print_lines(content, num_lines, total_lines, checks) ==
    LET st == get_start_index(num_lines, total_lines, checks)
    IN  IF st.tag = "Panic" THEN Aborted
        ELSE IF st.tag = "None" THEN Printed(<<>>)
        ELSE LET sk == SkipLines(content, st.val)
             IN  IF ~sk.ok THEN Failed(InvalidUtf8)
                 ELSE IF ~Utf8Valid(sk.rest) THEN Failed(FromUtf8Error)
                 ELSE Printed(sk.rest)

\* print_bytes with the fault of seeking one byte past the start index.
print_bytes_SeekOneFurther(content, num_bytes, total_bytes, checks) ==
    LET st == get_start_index(num_bytes, total_bytes, checks)
    IN  IF st.tag = "Panic" THEN Aborted
        ELSE IF st.tag = "None" THEN Printed(<<>>)
        ELSE IF st.val > I64_MAX THEN Failed(InvalidSeek)
        ELSE Printed(from_utf8_lossy(Drop(content, st.val + 1)))

\* fn print_bytes(file, num_bytes: &TakeValue, total_bytes: i64) -> MyResult<()>
\* (seek takes the u64 as the signed offset of lseek, which rejects a
\* negative one).
print_bytes(content, num_bytes, total_bytes, checks) ==
    LET st == get_start_index(num_bytes, total_bytes, checks)
    IN  IF st.tag = "Panic" THEN Aborted
        ELSE IF st.tag = "None" THEN Printed(<<>>)
        ELSE IF st.val > I64_MAX THEN Failed(InvalidSeek)
        ELSE Printed(from_utf8_lossy(Drop(content, st.val)))

---------------------------------------------------------------------------
VARIABLES
    pc,                \* where the program is
    overflow_checks,   \* whether the build checks arithmetic overflow
    take_val,          \* get_start_index: its take_val argument
    total,             \* get_start_index: its total argument
    start,             \* get_start_index: its result
    s,                 \* parse_count: its argument
    parsed,            \* parse_count: its result
    argv,              \* the command line: -n or -c with its text, -q, the files
    fs,                \* the file system: each named file's content, if it opens
    config,            \* the Config get_args built
    i,                 \* run: the position in config.files (from 1)
    stdout,            \* what was printed
    stderr,            \* the messages reported
    exit_code          \* the exit status, once the process has ended

tail_vars == <<argv, fs, config, i, stdout, stderr, exit_code>>
unit_vars == <<take_val, total, start, s, parsed>>
vars == <<pc, overflow_checks, take_val, total, start, s, parsed,
          argv, fs, config, i, stdout, stderr, exit_code>>

NoArgv == [unit |-> "none", text |-> <<>>, quiet |-> FALSE, files |-> <<>>]
NoConfig == [files |-> <<>>, lines |-> PlusZero,
             bytes |-> [some |-> FALSE, val |-> PlusZero], quiet |-> FALSE]
Running == "running"

\* The program's variables while a function is exercised on its own.
TailIdle ==
    /\ argv = NoArgv
    /\ fs = <<>>
    /\ config = NoConfig
    /\ i = 0
    /\ stdout = <<>>
    /\ stderr = <<>>
    /\ exit_code = Running

---------------------------------------------------------------------------
\* The resolver on its own: get_start_index called once on any offset value
\* and any total the callers can pass (a count of lines or bytes, so >= 0).
InitResolve ==
    /\ pc = "resolve"
    /\ overflow_checks \in BOOLEAN
    /\ take_val \in TakeValue
    /\ total \in 0..I64_MAX
    /\ start = None
    /\ s = <<>>
    /\ parsed = NotParsed
    /\ TailIdle

GetStartIndex ==
    /\ pc = "resolve"
    /\ start' = get_start_index(take_val, total, overflow_checks)
    /\ pc' = "resolved"
    /\ UNCHANGED <<overflow_checks, take_val, total, s, parsed, tail_vars>>

NextResolve == GetStartIndex

SpecResolve == InitResolve /\ [][NextResolve]_vars

---------------------------------------------------------------------------
\* The parser on its own: parse_count called once on any text.
InitParse ==
    /\ pc = "parse"
    /\ overflow_checks \in BOOLEAN
    /\ s \in Texts
    /\ parsed = NotParsed
    /\ take_val = PlusZero
    /\ total = 0
    /\ start = None
    /\ TailIdle

ParseCount ==
    /\ pc = "parse"
    /\ parsed' = parse_count(s, overflow_checks)
    /\ pc' = "parsed"
    /\ UNCHANGED <<overflow_checks, s, take_val, total, start, tail_vars>>

NextParse == ParseCount

SpecParse == InitParse /\ [][NextParse]_vars

---------------------------------------------------------------------------
\* The program: main calls get_args, then run.

\* The texts given to -n and -c: each magnitude without a sign, with '+' and
\* with '-', up to one past the longest file, at both ends of the i64 range,
\* and a text that is no number.
OffsetMagnitudes == (0..(MaxBytes + 1)) \cup {I64_MAX, I64_MAX + 1}
OffsetTexts ==
    {sign \o DecimalDigits(k) : sign \in {<<>>, <<"+">>, <<"-">>}, k \in OffsetMagnitudes}
        \cup {<<"f">>}

\* A file that opens, with its content, and one that does not.
Opens(content) == [openable |-> TRUE, content |-> content]
NoSuchFile == [openable |-> FALSE, content |-> <<>>]
FileStates == {Opens(c) : c \in Contents} \cup {NoSuchFile}

\* The command lines clap accepts: -n and -c conflict, FILE is required.
ArgvOver(files) ==
    {[unit |-> u, text |-> x, quiet |-> q, files |-> files] :
        u \in {"lines", "bytes"}, x \in OffsetTexts, q \in BOOLEAN}
    \cup {[unit |-> "none", text |-> <<>>, quiet |-> q, files |-> files] : q \in BOOLEAN}

\* tail on one file.
InitTail ==
    /\ pc = "get_args"
    /\ overflow_checks \in BOOLEAN
    /\ argv \in ArgvOver(<<"f1">>)
    /\ fs \in [{"f1"} -> FileStates]
    /\ config = NoConfig
    /\ i = 0
    /\ stdout = <<>>
    /\ stderr = <<>>
    /\ exit_code = Running
    /\ take_val = PlusZero
    /\ total = 0
    /\ start = None
    /\ s = <<>>
    /\ parsed = NotParsed

\* get_args: the Config, or the error of the first count that does not parse.
LinesArg == IF argv.unit = "lines" THEN parse_count(argv.text, overflow_checks)
            ELSE OkTake(TakeNum(-10))
BytesArg == IF argv.unit = "bytes" THEN parse_count(argv.text, overflow_checks)
            ELSE OkTake(PlusZero)

\* main, when get_args returns Ok: run starts on the first file.
GetArgsOk ==
    /\ pc = "get_args"
    /\ LinesArg.tag = "Ok" /\ BytesArg.tag = "Ok"
    /\ config' = [files |-> argv.files,
                  lines |-> LinesArg.val,
                  bytes |-> [some |-> argv.unit = "bytes", val |-> BytesArg.val],
                  quiet |-> argv.quiet]
    /\ i' = 1
    /\ pc' = "run"
    /\ UNCHANGED <<overflow_checks, argv, fs, stdout, stderr, exit_code, unit_vars>>

\* GetArgsErr with the fault of reporting the count that does not parse and
\* going on to run with the default offset.
GetArgsErrContinues ==
    /\ pc = "get_args"
    /\ LinesArg.tag # "Ok" \/ BytesArg.tag # "Ok"
    /\ stderr' = Append(stderr, <<"illegal count -- ">> \o argv.text)
    /\ config' = [files |-> argv.files, lines |-> TakeNum(-10),
                  bytes |-> [some |-> FALSE, val |-> PlusZero], quiet |-> argv.quiet]
    /\ i' = 1
    /\ pc' = "run"
    /\ UNCHANGED <<overflow_checks, argv, fs, stdout, exit_code, unit_vars>>

\* main, when get_args does not return Ok: the message of the first count
\* that does not parse is printed and the process exits with status 1 (101
\* after a panic); run is never called.
GetArgsErr ==
    /\ pc = "get_args"
    /\ LinesArg.tag # "Ok" \/ BytesArg.tag # "Ok"
    /\ LET bad == IF LinesArg.tag # "Ok" THEN LinesArg ELSE BytesArg
           what == IF LinesArg.tag # "Ok" THEN "illegal line count -- "
                                          ELSE "illegal byte count -- "
       IN  /\ stderr' = Append(stderr, IF bad.tag = "Err" THEN <<what>> \o bad.err
                                       ELSE <<"panicked: arithmetic overflow">>)
           /\ exit_code' = (IF bad.tag = "Err" THEN "1" ELSE "101")
    /\ pc' = "exited"
    /\ UNCHANGED <<overflow_checks, argv, fs, config, i, stdout, unit_vars>>

\* Header with the fault of never writing the leading "\n".
HeaderNoSeparator(cfg, k) ==
    IF ~cfg.quiet /\ Len(cfg.files) > 1
    THEN <<"==> ", cfg.files[k], " <==", "\n">>
    ELSE <<>>

\* The header println!("{}==> {} <==", if i > 0 { "\n" } else { "" }, filename),
\* printed when there are several files and -q is not given.
Header(cfg, k) ==
    IF ~cfg.quiet /\ Len(cfg.files) > 1
    THEN (IF k > 1 THEN <<"\n">> ELSE <<>>) \o <<"==> ", cfg.files[k], " <==", "\n">>
    ELSE <<>>

\* Resolution with the fault of keeping the total of the file resolved before
\* and adding it to this file's.
ResolutionCarried(cfg, content) ==
    LET n == count_lines_bytes(content)
    IN  IF cfg.bytes.some
        THEN [take_val |-> cfg.bytes.val, total |-> n.byte_count + total]
        ELSE [take_val |-> cfg.lines, total |-> n.line_count + total]

\* Resolution with the fault of resolving the byte offset against the line
\* total.
ResolutionMixedUnits(cfg, content) ==
    LET n == count_lines_bytes(content)
    IN  IF cfg.bytes.some
        THEN [take_val |-> cfg.bytes.val, total |-> n.line_count]
        ELSE [take_val |-> cfg.lines, total |-> n.line_count]

\* What run passes to the resolver for one opened file: the byte offset and
\* total_bytes when -c was given, the line offset and total_lines otherwise.
Resolution(cfg, content) ==
    LET n == count_lines_bytes(content)
    IN  IF cfg.bytes.some
        THEN [take_val |-> cfg.bytes.val, total |-> n.byte_count]
        ELSE [take_val |-> cfg.lines, total |-> n.line_count]

\* The extraction of one opened file: print_bytes when -c was given,
\* print_lines otherwise, on the totals count_lines_bytes returned.
Extract(cfg, content, checks) ==
    LET r == Resolution(cfg, content)
    IN  IF cfg.bytes.some
        THEN print_bytes(content, r.take_val, r.total, checks)
        ELSE print_lines(content, r.take_val, r.total, checks)

\* The call of get_start_index the extraction of file k makes, kept in
\* take_val, total and start.
Resolves(k) ==
    LET r == Resolution(config, fs[config.files[k]].content)
    IN  /\ take_val' = r.take_val
        /\ total' = r.total
        /\ start' = get_start_index(r.take_val, r.total, overflow_checks)

\* One turn of the loop of run, for a file that does not open: the error is
\* reported with the file's name and the loop goes on.
RunOpenErr ==
    /\ pc = "run"
    /\ i <= Len(config.files)
    /\ ~fs[config.files[i]].openable
    /\ stderr' = Append(stderr, <<config.files[i], ": ", "No such file or directory (os error 2)">>)
    /\ i' = i + 1
    /\ UNCHANGED <<pc, overflow_checks, argv, fs, config, stdout, exit_code, unit_vars>>

\* One turn of the loop of run, for a file that opens and is extracted.
RunFileOk ==
    /\ pc = "run"
    /\ i <= Len(config.files)
    /\ fs[config.files[i]].openable
    /\ LET r == Extract(config, fs[config.files[i]].content, overflow_checks)
       IN  /\ r.tag = "Ok"
           /\ stdout' = stdout \o Header(config, i) \o r.out
    /\ Resolves(i)
    /\ i' = i + 1
    /\ UNCHANGED <<pc, overflow_checks, argv, fs, config, stderr, exit_code, s, parsed>>

\* One turn of the loop of run, for a file that opens and whose extraction
\* fails: what was printed before the failure stays printed, the `?` returns
\* the error from run, main prints it and exits with status 1 (after a panic
\* the process ends with status 101).
RunFileErr ==
    /\ pc = "run"
    /\ i <= Len(config.files)
    /\ fs[config.files[i]].openable
    /\ LET r == Extract(config, fs[config.files[i]].content, overflow_checks)
       IN  /\ r.tag # "Ok"
           /\ stdout' = stdout \o Header(config, i) \o r.out
           /\ stderr' = Append(stderr, r.msg)
           /\ exit_code' = (IF r.tag = "Panic" THEN "101" ELSE "1")
    /\ Resolves(i)
    /\ pc' = "exited"
    /\ UNCHANGED <<overflow_checks, argv, fs, config, i, s, parsed>>

\* The loop of run is over: run returns Ok(()) and main returns.
RunReturn ==
    /\ pc = "run"
    /\ i > Len(config.files)
    /\ exit_code' = "0"
    /\ pc' = "exited"
    /\ UNCHANGED <<overflow_checks, argv, fs, config, i, stdout, stderr, unit_vars>>

NextTail == GetArgsOk \/ GetArgsErr \/ RunOpenErr \/ RunFileOk \/ RunFileErr \/ RunReturn

SpecTail == InitTail /\ [][NextTail]_vars

---------------------------------------------------------------------------
\* tail on several files.  The files are taken from a few contents: empty, one
\* terminated line, a blank line followed by an unterminated line, a byte
\* that is not valid UTF-8, a line followed by such a byte and a line
\* preceded by one; the counts from a few texts.
FileNames == <<"f1", "f2", "f3", "f4">>

\* Most files on a command line.
MaxFiles == 3

RunContents ==
    {<<>>, <<"a", "\n">>, <<"\n", "a">>, <<"xC3">>,
     <<"a", "\n", "xC3">>, <<"xC3", "\n", "a">>}
RunFileStates == {Opens(c) : c \in RunContents} \cup {NoSuchFile}
RunTexts == {<<"1">>, <<"+", "1">>, <<"+", "0">>, <<"f">>, to_string(I64_MIN)}

RunArgvOver(files) ==
    {[unit |-> u, text |-> x, quiet |-> q, files |-> files] :
        u \in {"lines", "bytes"}, x \in RunTexts, q \in BOOLEAN}
    \cup {[unit |-> "none", text |-> <<>>, quiet |-> q, files |-> files] : q \in BOOLEAN}

InitRun ==
    /\ pc = "get_args"
    /\ overflow_checks \in BOOLEAN
    /\ \E n \in 1..MaxFiles :
        /\ argv \in RunArgvOver(SubSeq(FileNames, 1, n))
        /\ fs \in [{FileNames[k] : k \in 1..n} -> RunFileStates]
    /\ config = NoConfig
    /\ i = 0
    /\ stdout = <<>>
    /\ stderr = <<>>
    /\ exit_code = Running
    /\ take_val = PlusZero
    /\ total = 0
    /\ start = None
    /\ s = <<>>
    /\ parsed = NotParsed

SpecRun == InitRun /\ [][NextTail]_vars

---------------------------------------------------------------------------
\* The two strategies on their own: print_lines or print_bytes called once on
\* an opened file, with any offset value and the total count_lines_bytes
\* gives for the strategy's unit.
InitExtract ==
    /\ pc = "extract"
    /\ overflow_checks \in BOOLEAN
    /\ take_val \in TakeValue
    /\ fs \in [{"f1"} -> {Opens(c) : c \in Contents}]
    /\ total = 0
    /\ start = None
    /\ s = <<>>
    /\ parsed = NotParsed
    /\ argv = NoArgv
    /\ config = NoConfig
    /\ i = 0
    /\ stdout = <<>>
    /\ stderr = <<>>
    /\ exit_code = Running

PrintLines ==
    /\ pc = "extract"
    /\ LET n == count_lines_bytes(fs["f1"].content).line_count
           r == print_lines(fs["f1"].content, take_val, n, overflow_checks)
       IN  /\ total' = n
           /\ start' = get_start_index(take_val, n, overflow_checks)
           /\ stdout' = stdout \o r.out
           /\ stderr' = (IF r.tag = "Ok" THEN stderr ELSE Append(stderr, r.msg))
    /\ pc' = "print_lines"
    /\ UNCHANGED <<overflow_checks, take_val, s, parsed, argv, fs, config, i, exit_code>>

PrintBytes ==
    /\ pc = "extract"
    /\ LET n == count_lines_bytes(fs["f1"].content).byte_count
           r == print_bytes(fs["f1"].content, take_val, n, overflow_checks)
       IN  /\ total' = n
           /\ start' = get_start_index(take_val, n, overflow_checks)
           /\ stdout' = stdout \o r.out
           /\ stderr' = (IF r.tag = "Ok" THEN stderr ELSE Append(stderr, r.msg))
    /\ pc' = "print_bytes"
    /\ UNCHANGED <<overflow_checks, take_val, s, parsed, argv, fs, config, i, exit_code>>

NextExtract == PrintLines \/ PrintBytes

SpecExtract == InitExtract /\ [][NextExtract]_vars

---------------------------------------------------------------------------
\* The state after get_start_index has returned for an offset TakeNum(v).
Resolved == pc = "resolved"
ResolvedNum == Resolved /\ take_val.tag = "TakeNum"

\* C2: for every negative offset TakeNum(-v) and every total with
\* |v| >= total > 0, get_start_index returns Some(0).
C2_FromEndClampsToZero ==
    (ResolvedNum /\ take_val.num < 0 /\ total > 0 /\ 0 - take_val.num >= total)
        => start = Some(0)

\* C3: for TakeNum(i64::MIN) and every total > 0, get_start_index neither
\* panics nor wraps: it returns Some(0).
C3_MinOffsetIsSafe ==
    (Resolved /\ take_val = TakeNum(I64_MIN) /\ total > 0) => start = Some(0)

\* C4: for every negative offset TakeNum(-v) and every total with
\* 0 < |v| < total, get_start_index returns Some(total - |v|).
C4_FromEndInside ==
    (ResolvedNum /\ take_val.num < 0 /\ 0 - take_val.num < total)
        => start = Some(total + take_val.num)

C4_Witness ==
    Resolved /\ take_val = TakeNum(-3) /\ total = 10 /\ start = Some(7)

\* C5: for every total > 0 and every positive offset TakeNum(v) with
\* 1 <= v <= total, get_start_index returns Some(v - 1).
C5_FromStartInside ==
    (ResolvedNum /\ total > 0 /\ 1 <= take_val.num /\ take_val.num <= total)
        => start = Some(take_val.num - 1)

C5_Witness ==
    Resolved /\ take_val = TakeNum(3) /\ total = 10 /\ start = Some(2)

\* C6: for every positive offset TakeNum(v) with v > total, and for TakeNum(0)
\* with any total, get_start_index returns None.
C6_PastEndOrZeroIsNone ==
    (ResolvedNum /\ (take_val.num > total \/ take_val.num = 0)) => start = None

C6_Witness ==
    Resolved /\ take_val = TakeNum(2) /\ total = 1 /\ start = None

\* C7: whenever total = 0, get_start_index returns None for every offset
\* value (PlusZero and any positive, zero or negative TakeNum).
C7_EmptyIsNone ==
    (Resolved /\ total = 0) => start = None

C7_Witness ==
    Resolved /\ take_val = TakeNum(I64_MIN) /\ total = 0 /\ start = None

C9_StartInsideResource ==
    (Resolved /\ total > 0 /\ start.tag = "Some")
        => (0 <= start.val /\ start.val < total)

---------------------------------------------------------------------------
\* What a text means as an integer, independently of how the code parses it:
\* an optional sign followed by one or more ASCII digits, read in base ten.
HasSign(txt) == txt # <<>> /\ txt[1] \in {"+", "-"}
DigitsOf(txt) == IF HasSign(txt) THEN Tail(txt) ELSE txt
WellFormedInt(txt) ==
    /\ DigitsOf(txt) # <<>>
    /\ \A k \in 1..Len(DigitsOf(txt)) : DigitsOf(txt)[k] \in AsciiDigitSet

RECURSIVE Magnitude(_)
Magnitude(digits) ==
    IF digits = <<>> THEN 0
    ELSE 10 * Magnitude(SubSeq(digits, 1, Len(digits) - 1))
         + DigitValue(digits[Len(digits)])

TextValue(txt) ==
    IF HasSign(txt) /\ txt[1] = "-" THEN 0 - Magnitude(DigitsOf(txt))
    ELSE Magnitude(DigitsOf(txt))

Parsed == pc = "parsed"

\* The sign convention: the signed value unchanged for a text with a sign,
\* the negated value for a text without, and the three boundary texts.
SignConvention ==
    /\ (WellFormedInt(s) /\ InI64(TextValue(s)))
        => parsed = OkTake(TakeNum(IF HasSign(s) THEN TextValue(s)
                                                 ELSE 0 - TextValue(s)))
    /\ s = to_string(I64_MAX) => parsed = OkTake(TakeNum(I64_MIN + 1))
    /\ s = <<"+">> \o to_string(I64_MAX) => parsed = OkTake(TakeNum(I64_MAX))
    /\ s = to_string(I64_MIN) => parsed = OkTake(TakeNum(I64_MIN))

\* C10 as stated: for every well-formed integer text whose value fits in an
\* i64, parse_count yields TakeNum of the signed value unchanged when the text
\* has an explicit '+' or '-', and TakeNum of the negated value when it has no
\* sign; the texts of i64::MAX, "+" i64::MAX and i64::MIN yield
\* TakeNum(i64::MIN + 1), TakeNum(i64::MAX) and TakeNum(i64::MIN).
C10_SignConventionEveryText ==
    Parsed => SignConvention

\* C10 as amended: the same for every such text other than exactly "+0",
\* for which parse_count yields PlusZero and not TakeNum(0).
C10_SignConvention ==
    (Parsed /\ s # <<"+", "0">>) => SignConvention

C10_Witness ==
    Parsed /\ s = to_string(I64_MAX) /\ parsed = OkTake(TakeNum(I64_MIN + 1))

---------------------------------------------------------------------------
\* The spellings of zero: well-formed integer texts of value 0.
ZeroText(txt) == WellFormedInt(txt) /\ TextValue(txt) = 0

\* C11: parse_count returns PlusZero for the text "+0" and for no other text;
\* every other spelling of zero ("0", "-0", "+00", ...) yields TakeNum(0),
\* which get_start_index resolves to None for every total, whereas the value
\* of "+0" resolves to Some(0), the whole resource, for every total > 0.
C11_PlusZeroOnlyForPlusZeroText ==
    Parsed =>
        /\ (parsed = OkTake(PlusZero)) <=> (s = <<"+", "0">>)
        /\ (ZeroText(s) /\ s # <<"+", "0">>) => parsed = OkTake(TakeNum(0))
        /\ ZeroText(s) =>
            \A t \in 1..I64_MAX :
                get_start_index(parsed.val, t, overflow_checks)
                    = (IF s = <<"+", "0">> THEN Some(0) ELSE None)

C11_Witness ==
    Parsed /\ s = <<"+", "0", "0">> /\ parsed = OkTake(TakeNum(0))

\* C12: parse_count fails for every text that is not a valid integer (empty,
\* non-numeric, fractional) and for every integer text whose value does not
\* fit in an i64; the error carries exactly the input text; no such input
\* yields a value or a panic.
C12_InvalidTextFails ==
    (Parsed /\ (~WellFormedInt(s) \/ ~InI64(TextValue(s))))
        => (parsed.tag = "Err" /\ parsed.err = s)

C12_Witness ==
    Parsed /\ s = <<"3", ".", "1">> /\ parsed.tag = "Err" /\ parsed.err = s

\* The text, without a sign, of the magnitude of i64::MIN.
MinMagnitudeText == DecimalDigits(I64_MAX + 1)

\* C13 as stated: the text without a sign that equals the positive
\* counterpart of i64::MIN is valid and maps to TakeNum(i64::MIN).
C13_UnsignedMinMagnitudeAccepted ==
    (Parsed /\ s = MinMagnitudeText) => parsed = OkTake(TakeNum(I64_MIN))

\* C13 as amended: that text is rejected, the error carrying the text; it is
\* the text of i64::MIN with its minus sign that maps to TakeNum(i64::MIN).
C13_UnsignedMinMagnitudeRejected ==
    Parsed =>
        /\ s = MinMagnitudeText => (parsed.tag = "Err" /\ parsed.err = s)
        /\ s = <<"-">> \o MinMagnitudeText => parsed = OkTake(TakeNum(I64_MIN))

C13_Witness ==
    Parsed /\ s = MinMagnitudeText /\ parsed.tag = "Err"

---------------------------------------------------------------------------
\* Lines, independently of how the code scans them: a line ends with its
\* terminator; a last line may lack one.
NewlinesUpTo(buf, p) == Cardinality({k \in 1..p : buf[k] = "\n"})
NumLines(buf) ==
    NewlinesUpTo(buf, Len(buf))
        + (IF buf # <<>> /\ buf[Len(buf)] # "\n" THEN 1 ELSE 0)

\* Lines j through the last of buf, for 1 <= j <= NumLines(buf).
FromLine(buf, j) ==
    IF j = 1 THEN buf
    ELSE Drop(buf, CHOOSE p \in 1..Len(buf) :
                       buf[p] = "\n" /\ NewlinesUpTo(buf, p) = j - 1)

LastLines(buf, m) == FromLine(buf, NumLines(buf) - m + 1)

Min(a, b) == IF a <= b THEN a ELSE b

\* The run of tail -n TEXT f1 has ended, f1 opened.
TailLinesDone ==
    /\ pc = "exited"
    /\ argv.unit = "lines"
    /\ fs["f1"].openable

\* C1: for every resource with N >= 1 lines and every offset text without a
\* sign or with a leading '-', of magnitude k >= 1, parse_count, get_start_index
\* and print_lines emit exactly the last min(k, N) lines, in order; for the
\* text "+k" with 1 <= k <= N they emit exactly lines k through N.  (Stated
\* for the resources that are valid text and the texts whose value fits in an
\* i64: the others are the errors of parse_count and print_lines.)
C1_EndToEndLines ==
    LET content == fs["f1"].content
        n == NumLines(content)
        k == Magnitude(DigitsOf(argv.text))
    IN  (/\ TailLinesDone
         /\ Utf8Valid(content) /\ n >= 1
         /\ WellFormedInt(argv.text) /\ k >= 1
         /\ InI64(TextValue(argv.text)))
        => /\ (~HasSign(argv.text) \/ argv.text[1] = "-")
                => stdout = LastLines(content, Min(k, n))
           /\ (HasSign(argv.text) /\ argv.text[1] = "+" /\ k <= n)
                => stdout = FromLine(content, k)

---------------------------------------------------------------------------
\* What is left of buf after its first n whole lines (terminators included).
AfterLines(buf, n) ==
    IF n = 0 THEN buf
    ELSE IF n >= NumLines(buf) THEN <<>>
    ELSE FromLine(buf, n + 1)

\* Line j of buf with its terminator, for 1 <= j <= NumLines(buf).
NthLine(buf, j) ==
    LET rest == FromLine(buf, j)
        ends == {p \in 1..Len(rest) : rest[p] = "\n"}
    IN  IF ends = {} THEN rest
        ELSE SubSeq(rest, 1, CHOOSE p \in ends : \A q \in ends : p <= q)

\* Whether each of the first n lines of buf decodes as text.
LinesDecode(buf, n) ==
    \A j \in 1..Min(n, NumLines(buf)) : Utf8Valid(NthLine(buf, j))

\* run has ended on the opened file f1, in line mode or in byte mode.
LinesRunDone ==
    pc = "exited" /\ config # NoConfig /\ ~config.bytes.some /\ fs["f1"].openable
BytesRunDone ==
    pc = "exited" /\ config # NoConfig /\ config.bytes.some /\ fs["f1"].openable

\* The start index print_lines and print_bytes resolve for f1.
LinesStart ==
    get_start_index(config.lines, NumLines(fs["f1"].content), overflow_checks)
BytesStart ==
    get_start_index(config.bytes.val, Len(fs["f1"].content), overflow_checks)

\* C14: when get_start_index yields Some(s), print_lines discards exactly the
\* first s whole lines and writes every remaining byte unmodified and in
\* order, for every content, also one whose trailing part is not valid text;
\* when it yields None nothing is written.  (Stated for the contents whose
\* first s lines decode: the others are the error of C16.)
C14_LinesVerbatim ==
    LinesRunDone =>
        /\ (LinesStart.tag = "Some" /\ LinesDecode(fs["f1"].content, LinesStart.val))
            => stdout = AfterLines(fs["f1"].content, LinesStart.val)
        /\ LinesStart.tag = "None" => stdout = <<>>

\* C15: when get_start_index yields Some(s), print_bytes writes exactly the
\* bytes from offset s to the end, unmodified and in order; bytes that are not
\* valid text pass through unchanged.
C15_BytesVerbatim ==
    (BytesRunDone /\ BytesStart.tag = "Some")
        => stdout = Drop(fs["f1"].content, BytesStart.val)

\* C16: when one of the first start_index lines that print_lines must skip
\* does not decode as text, print_lines returns an error and prints nothing.
C16_SkippedLineDecodingFails ==
    (/\ LinesRunDone
     /\ LinesStart.tag = "Some"
     /\ ~LinesDecode(fs["f1"].content, LinesStart.val))
        => (exit_code = "1" /\ stdout = <<>> /\ stderr = <<InvalidUtf8>>)

C16_Witness ==
    /\ LinesRunDone
    /\ fs["f1"].content = <<"xC3", "\n", "a">>
    /\ LinesStart = Some(1)
    /\ exit_code = "1" /\ stdout = <<>>

---------------------------------------------------------------------------
\* run was called and the process has ended.
RunEnded == pc = "exited" /\ config # NoConfig

NumFiles == Len(config.files)
OpenableAt(k) == fs[config.files[k]].openable

\* What the extraction of file k returns, and the window it prints.
FileResult(k) == Extract(config, fs[config.files[k]].content, overflow_checks)
Window(k) == IF FileResult(k).tag = "Ok" THEN FileResult(k).out ELSE <<>>

\* The header of file k as the output shows it: with several files and no
\* -q, one line terminator for every file but the first of the list, then the
\* line naming the file.
HeaderShown(k) ==
    IF NumFiles > 1 /\ ~config.quiet
    THEN (IF k > 1 THEN <<"\n">> ELSE <<>>) \o <<"==> ", config.files[k], " <==", "\n">>
    ELSE <<>>

\* The output after the first k files: for each file that opens its header
\* and then its window; nothing for a file that does not open.
RECURSIVE OutputThrough(_)
OutputThrough(k) ==
    IF k = 0 THEN <<>>
    ELSE OutputThrough(k - 1)
            \o (IF OpenableAt(k) THEN HeaderShown(k) \o Window(k) ELSE <<>>)

\* The reports of the files that do not open, in the order of the list.
RECURSIVE OpenErrorsThrough(_)
OpenErrorsThrough(k) ==
    IF k = 0 THEN <<>>
    ELSE OpenErrorsThrough(k - 1)
            \o (IF OpenableAt(k) THEN <<>>
                ELSE <<<<config.files[k], ": ", "No such file or directory (os error 2)">>>>)

\* C17: a failure while counting, reading or decoding one opened resource
\* stops only that resource: every later resource of the list is still
\* processed and its window emitted.
C17_FailureStopsOnlyThatResource ==
    RunEnded =>
        \A k \in 1..NumFiles :
            (OpenableAt(k) /\ FileResult(k).tag = "Err")
                => \A j \in (k + 1)..NumFiles : i > j

\* C18: a resource that cannot be opened is reported with its name, produces
\* no header and no output, every other resource of the list is still
\* processed in the given order, and run returns success.
C18_OpenFailureSkipsOnlyThatResource ==
    (RunEnded /\ \E k \in 1..NumFiles : ~OpenableAt(k))
        => /\ exit_code = "0"
           /\ stderr = OpenErrorsThrough(NumFiles)
           /\ stdout = OutputThrough(NumFiles)

\* The output at every point of run: the files before the current one, and
\* after a failure also the header of the file that failed.
OutputIsHeadersAndWindows ==
    /\ pc = "run" => stdout = OutputThrough(i - 1)
    /\ RunEnded => stdout = OutputThrough(IF exit_code = "0" THEN NumFiles ELSE i)

\* Every header that follows some output has an empty line before it.
BlankLineBeforeHeaders ==
    \A p \in 3..Len(stdout) :
        stdout[p] = "==> " => (stdout[p - 1] = "\n" /\ stdout[p - 2] = "\n")

\* C19 as stated: with several resources and no header suppression every
\* opened resource's window is immediately preceded by a header line naming
\* it, and the header is separated from the previous resource's output by
\* exactly one blank line whatever that output is; with one resource or with
\* suppression there is no header and no separator.
C19_HeaderAfterBlankLine ==
    OutputIsHeadersAndWindows /\ BlankLineBeforeHeaders

\* C19 as amended: the header of every opened resource that is not the first
\* of the list is preceded by exactly one line terminator, which makes a
\* blank line only when the output before it ends with a line terminator.
C19_HeaderAfterOneTerminator ==
    OutputIsHeadersAndWindows

C19_Witness ==
    /\ RunEnded /\ exit_code = "0" /\ NumFiles > 1
    /\ \E p \in 3..Len(stdout) :
        stdout[p] = "==> " /\ stdout[p - 1] = "\n" /\ stdout[p - 2] = "a"

\* get_args was given a count that does not parse.
InvalidOffsetGiven ==
    /\ pc = "exited"
    /\ argv.unit # "none"
    /\ (~WellFormedInt(argv.text) \/ ~InI64(TextValue(argv.text)))

\* C20 as stated: an invalid offset specification is not fatal: after the
\* parse failure is reported, the resources are processed.
C20_InvalidOffsetNonFatal ==
    InvalidOffsetGiven => (config # NoConfig /\ i > Len(argv.files))

\* C20 as amended: an invalid offset specification is fatal: it is reported
\* as "illegal line count -- TEXT" or "illegal byte count -- TEXT", the
\* process exits with status 1, and no resource is processed.
C20_InvalidOffsetFatal ==
    InvalidOffsetGiven =>
        /\ exit_code = "1"
        /\ config = NoConfig /\ i = 0 /\ stdout = <<>>
        /\ stderr = << <<IF argv.unit = "lines" THEN "illegal line count -- "
                                                ELSE "illegal byte count -- ">>
                       \o argv.text >>

C20_Witness ==
    /\ pc = "exited" /\ argv.unit = "lines" /\ argv.text = <<"f">>
    /\ exit_code = "1" /\ i = 0

---------------------------------------------------------------------------
\* run is about to extract the opened file i.
ExtractsNext == pc = "run" /\ i <= NumFiles /\ OpenableAt(i)

\* The offset the Config holds for the unit in use, and file k's total in
\* that unit.
ConfiguredOffset == IF config.bytes.some THEN config.bytes.val ELSE config.lines
UnitTotal(k) ==
    IF config.bytes.some THEN Len(fs[config.files[k]].content)
    ELSE NumLines(fs[config.files[k]].content)

\* C21: resolution is stateless across a run: in every step of run the parsed
\* offset (the Config) is left as it was, and the start index computed for a
\* resource is get_start_index of the offset and that resource's total only,
\* whatever was processed before it, and equal to the index of the resolution
\* before it when that one had the same offset and total.
C21_ResolutionStateless ==
    [][pc = "run" =>
        /\ config' = config
        /\ ExtractsNext =>
            /\ start' = get_start_index(ConfiguredOffset, UnitTotal(i), overflow_checks)
            /\ (take_val' = take_val /\ total' = total) => start' = start]_vars

C21_Witness ==
    /\ RunEnded /\ exit_code = "0" /\ NumFiles = 2
    /\ fs["f1"].content = <<"a", "\n">> /\ fs["f2"].content = <<"\n", "a">>
    /\ config.lines = TakeNum(-1) /\ ~config.bytes.some
    /\ total = 2 /\ start = Some(1)

\* What each strategy writes for a start index: the byte strategy the bytes
\* from the index on, the line strategy the content after that many lines.
ByteStrategy(buf, st) ==
    IF st.tag = "Some" /\ st.val <= I64_MAX
    THEN from_utf8_lossy(Drop(buf, st.val)) ELSE <<>>
LineStrategy(buf, st) ==
    IF st.tag = "Some" /\ LinesDecode(buf, st.val) /\ Utf8Valid(AfterLines(buf, st.val))
    THEN AfterLines(buf, st.val) ELSE <<>>

\* C22: units are never mixed within one resolution: when a byte offset is
\* configured, run resolves the byte offset against the file's byte total and
\* writes what the byte strategy gives for that index, whatever the line
\* total; otherwise it resolves the line offset against the line total and
\* writes what the line strategy gives.
C22_UnitsNeverMixed ==
    [][ExtractsNext =>
        LET buf == fs[config.files[i]].content
        IN  IF config.bytes.some
            THEN /\ take_val' = config.bytes.val
                 /\ total' = Len(buf)
                 /\ start' = get_start_index(config.bytes.val, Len(buf), overflow_checks)
                 /\ stdout' = stdout \o HeaderShown(i) \o ByteStrategy(buf, start')
            ELSE /\ take_val' = config.lines
                 /\ total' = NumLines(buf)
                 /\ start' = get_start_index(config.lines, NumLines(buf), overflow_checks)
                 /\ stdout' = stdout \o HeaderShown(i) \o LineStrategy(buf, start')]_vars

C22_Witness ==
    /\ RunEnded /\ exit_code = "0" /\ config.bytes.some
    /\ fs["f1"].content = <<"a", "\n", "a">>
    /\ take_val = TakeNum(-2) /\ total = 3 /\ start = Some(1)
    /\ stdout = <<"\n", "a">>

---------------------------------------------------------------------------
\* Every line of buf is one byte long: every byte is a line terminator.
OneByteLines(buf) == \A k \in 1..Len(buf) : buf[k] = "\n"

\* C23: the two extraction strategies agree: for a resource in which every
\* line is exactly one byte long, print_lines and print_bytes given the same
\* offset value emit identical output, for every offset value: what either
\* has written is what the other writes for the same offset and total.
C23_StrategiesAgree ==
    LET buf == fs["f1"].content
    IN  /\ (pc = "print_lines" /\ OneByteLines(buf))
            => stdout = print_bytes(buf, take_val, Len(buf), overflow_checks).out
        /\ (pc = "print_bytes" /\ OneByteLines(buf))
            => stdout = print_lines(buf, take_val, Len(buf), overflow_checks).out

C23_Witness ==
    /\ pc = "print_lines"
    /\ fs["f1"].content = <<"\n", "\n", "\n">>
    /\ take_val = TakeNum(-2)
    /\ stdout = <<"\n", "\n">>

---------------------------------------------------------------------------
\* C24: in a run over several resources without header suppression, a
\* separator is written before a header only if an earlier resource of the
\* same run has had its header written: the first header on the output has
\* nothing before it, also when earlier resources of the list did not open.
C24_SeparatorOnlyAfterHeader ==
    \A p \in 1..Len(stdout) :
        stdout[p] = "==> " => (p = 1 \/ \E q \in 1..(p - 1) : stdout[q] = "==> ")

---------------------------------------------------------------------------
\* C25: the line strategy is all-or-nothing per resource: in every step in
\* which print_lines returns an error, no part of that resource's window is
\* written; the output grows by the resource's header only (by nothing when
\* headers are not enabled).
C25_LinesAllOrNothing ==
    [][(ExtractsNext /\ ~config.bytes.some /\ exit_code' = "1")
        => stdout' = stdout \o HeaderShown(i)]_vars

C25_Witness ==
    /\ RunEnded /\ exit_code = "1" /\ i = 1
    /\ NumFiles > 1 /\ ~config.quiet /\ ~config.bytes.some
    /\ fs["f1"].content = <<"a", "\n", "xC3">>
    /\ config.lines = TakeNum(1)
    /\ stdout = <<"==> ", "f1", " <==", "\n">>
    /\ stderr = <<FromUtf8Error>>

====
